---- MODULE Spec2Model ----
(***************************************************************************)
(* serial_transfer-rs: a framing protocol for fixed-size records over a    *)
(* serial port.  The module models src/src/lib.rs (SerialTransfer: send,   *)
(* available, encode_data_cobs, decode_data_cobs) and src/src/crc/mod.rs    *)
(* (CRC::new, CRC::calculate).                                              *)
(*                                                                         *)
(* Bytes are the integers 0..255; every `as u8` cast and every wrapping    *)
(* u8 operation of the source is a "% 256" here.  A Vec<u8> is a sequence; *)
(* the source's 0-based index i is the sequence index i + 1.               *)
(***************************************************************************)
EXTENDS Integers, Sequences, FiniteSets, TLC

VARIABLES
    \* SerialTransfer's fields, one value per session
    status, transfer_state, id_byte, overhead_byte, payload_length, payload,
    \* the serial port of each session: bytes readable now, packets written
    rx, tx,
    \* bytes the peer has put on the line that have not reached the port yet
    wire,
    \* the caller of each session: where it is ("idle": outside available;
    \* "call": in available, before the first pass of its loop; "loop": in
    \* available, after a pass), the value its last call returned, the
    \* records it was handed so far, and the record size COUNT it
    \* instantiates send/available with
    pc, ret, delivered, COUNT,
    \* the record the caller passes to send (also the codec's test payload)
    data,
    \* the records whose frames the peer's send has put on the line of each
    \* session and that reach the port undamaged, in order
    sent,
    \* the stages of a direct encode/decode of data, and the local
    \* reference_index of a decode_data_cobs run pass by pass
    stage, encoded, decoded, reference_index,
    \* a direct call of CRC::new: its argument and the table it returned
    \* (the empty sequence before the call)
    polynomial, table

vars == <<status, transfer_state, id_byte, overhead_byte, payload_length,
          payload, rx, tx, wire, pc, ret, delivered, COUNT, data, sent,
          stage, encoded, decoded, reference_index, polynomial, table>>

sessionVars == <<status, transfer_state, id_byte, overhead_byte,
                 payload_length, payload>>

portVars == <<rx, tx, wire>>

callVars == <<pc, ret, delivered>>

\* what no step of a session changes: the caller's record type, the peer's
\* records
fixedVars == <<COUNT, data, sent>>

codecVars == <<stage, encoded, decoded, reference_index>>

crcVars == <<polynomial, table>>

----------------------------------------------------------------------------
(* Program constants *)

START_BYTE == 126

STOP_BYTE == 129

MAX_PACKET_SIZE == 254

\* the generator polynomial SerialTransfer::new passes to CRC::new
POLYNOMIAL == 155

\* overflow_byte when the record holds no START_BYTE
NO_START_BYTE == 255

U8(n) == n % 256

----------------------------------------------------------------------------
(* Bounds of the model *)

\* longest record of the exhaustively enumerated short records
MaxRecordLen == 2

\* packets a session may write before the model stops sending
MaxWrites == 1

----------------------------------------------------------------------------
(* src/src/crc/mod.rs *)

RECURSIVE Xor(_, _)
Xor(a, b) ==
    IF a = 0 THEN b
    ELSE IF b = 0 THEN a
    ELSE ((a + b) % 2) + 2 * Xor(a \div 2, b \div 2)

\* one pass of the inner loop of CRC::new
CrcShift(c, p) ==
    IF (c \div 128) % 2 # 0
        THEN Xor(U8(c * 2), p)
        ELSE U8(c * 2)

RECURSIVE CrcShifts(_, _, _)
CrcShifts(c, p, n) ==
    IF n = 0 THEN c
    ELSE CrcShifts(CrcShift(c, p), p, n - 1)

\* CRC::new: the table starts as 256 zeroes and the loop `for i in 0..255`
\* (an exclusive range) fills the entries 0..254
CRC_new(p) ==
    [i \in 0..255 |->
        IF i \in 0..(255 - 1) THEN CrcShifts(i, p, 8) ELSE 0]

\* Option<u8>
None == <<>>

Some(v) == <<v>>

\* one pass of the loop of CRC::calculate at index i: `None => break` when
\* the data is shorter than the length asked for
CrcAt(t, bytes, acc, i) ==
    IF acc.broke THEN acc
    ELSE IF i >= Len(bytes) THEN [crc |-> acc.crc, broke |-> TRUE]
    ELSE [crc |-> t[Xor(acc.crc, bytes[i + 1])], broke |-> FALSE]

\* the passes lo..hi-1 of that loop, in order; the range is split in halves
\* to keep the evaluation shallow, the lower half always running first
RECURSIVE CrcRange(_, _, _, _, _)
CrcRange(t, bytes, acc, lo, hi) ==
    IF hi <= lo THEN acc
    ELSE IF hi = lo + 1 THEN CrcAt(t, bytes, acc, lo)
    ELSE LET mid == (lo + hi) \div 2
             lower == CrcRange(t, bytes, acc, lo, mid)
         IN  IF lower.broke THEN lower
             ELSE CrcRange(t, bytes, lower, mid, hi)

\* CRC::calculate(data, length) with the table t
calculate(t, bytes, length) ==
    LET n == IF length = None THEN U8(Len(bytes)) ELSE length[1]
    IN  CrcRange(t, bytes, [crc |-> 0, broke |-> FALSE], 0, n).crc

\* the table of the crc field SerialTransfer::new builds: CRC::new(0x9B)
crc == CRC_new(POLYNOMIAL)

----------------------------------------------------------------------------
(* src/src/lib.rs: the stuffing codec *)

HasStart(bytes) == \E i \in 1..Len(bytes) : bytes[i] = START_BYTE

\* buffer.iter().position(|&x| x == START_BYTE), 0-based
FirstStart(bytes) ==
    (CHOOSE i \in 1..Len(bytes) :
        /\ bytes[i] = START_BYTE
        /\ \A j \in 1..(i - 1) : bytes[j] # START_BYTE) - 1

\* the first loop of encode_data_cobs: the highest index holding START_BYTE
LastStart(bytes) ==
    (CHOOSE i \in 1..Len(bytes) :
        /\ bytes[i] = START_BYTE
        /\ \A j \in (i + 1)..Len(bytes) : bytes[j] # START_BYTE) - 1

\* send's overflow_byte
overflow_byte(buffer) ==
    IF HasStart(buffer) THEN U8(FirstStart(buffer)) ELSE NO_START_BYTE

\* one pass of the second loop of encode_data_cobs, at index i
EncodeAt(st, i) ==
    IF st.bytes[i + 1] = START_BYTE
        THEN [bytes |-> [st.bytes EXCEPT ![i + 1] =
                            (st.reference_index - i) % 256],
              reference_index |-> i]
        ELSE st

\* the passes hi, hi-1, .., lo of `for i in (0..data.len() as u8).rev()`, in
\* that order; the range is split in halves to keep the evaluation shallow,
\* the upper half always running first
RECURSIVE EncodeRange(_, _, _)
EncodeRange(st, hi, lo) ==
    IF hi < lo THEN st
    ELSE IF hi = lo THEN EncodeAt(st, hi)
    ELSE LET mid == (lo + hi + 1) \div 2
             upper == EncodeRange(st, hi, mid)
         IN  IF upper.reference_index >= 0
                 THEN EncodeRange(upper, mid - 1, lo)
                 ELSE upper

encode_data_cobs(bytes) ==
    IF HasStart(bytes)
        THEN EncodeRange([bytes |-> bytes,
                          reference_index |-> U8(LastStart(bytes))],
                         U8(Len(bytes)) - 1, 0).bytes
        ELSE bytes

\* mutant: the byte read is left in place instead of being replaced by
\* START_BYTE
DecodeStepKeeps(st) ==
    IF st.done THEN st
    ELSE IF st.reference_index < U8(Len(st.bytes))
        THEN LET offset == st.bytes[st.reference_index + 1]
                 sum == st.reference_index + offset
             IN  [bytes |-> st.bytes,
                  reference_index |-> U8(sum),
                  done |-> sum > 255]
        ELSE [st EXCEPT !.done = TRUE]

\* one pass of the `while` loop of decode_data_cobs; done once the loop
\* condition fails or the addition overflows (`break`)
DecodeStep(st) ==
    IF st.done THEN st
    ELSE IF st.reference_index < U8(Len(st.bytes))
        THEN LET offset == st.bytes[st.reference_index + 1]
                 restored == [st.bytes EXCEPT
                                 ![st.reference_index + 1] = START_BYTE]
                 sum == st.reference_index + offset
             IN  [bytes |-> restored,
                  reference_index |-> U8(sum),
                  done |-> sum > 255]
        ELSE [st EXCEPT !.done = TRUE]

\* n passes of that loop, in order, split in halves to keep the evaluation
\* shallow
RECURSIVE DecodeSteps(_, _)
DecodeSteps(st, n) ==
    IF n <= 0 THEN st
    ELSE IF n = 1 THEN DecodeStep(st)
    ELSE LET first == DecodeSteps(st, n \div 2)
         IN  IF first.done THEN first
             ELSE DecodeSteps(first, n - (n \div 2))

\* the loop visits an index at most twice (a second time only after reading
\* the offset 0 there), so 2 * len + 1 passes run it to its end
DecodeRun(bytes, overhead) ==
    DecodeSteps([bytes |-> bytes, reference_index |-> overhead,
                 done |-> FALSE],
                2 * Len(bytes) + 1)

decode_data_cobs(bytes, overhead) == DecodeRun(bytes, overhead).bytes

----------------------------------------------------------------------------
(* src/src/lib.rs: send *)

\* the packet send assembles for the raw bytes `buffer` of its record, with
\* the checksum table t
SendPacket(t, buffer) ==
    LET stuffed == encode_data_cobs(buffer)
    IN  <<START_BYTE, 0, overflow_byte(buffer), U8(Len(stuffed))>>
            \o stuffed
            \o <<calculate(t, stuffed, None), STOP_BYTE>>

----------------------------------------------------------------------------
(* Sessions, records and the state SerialTransfer::new leaves *)

Sessions == {1, 2}

\* byte values of the enumerated short records
RecordBytes == {1, START_BYTE, STOP_BYTE}

SeqsUpTo(S, n) == UNION {[1..k -> S] : k \in 1..n}

ShortRecords == SeqsUpTo(RecordBytes, MaxRecordLen)

\* a record of n bytes holding START_BYTE exactly at the (0-based) indices
\* in starts and small non-zero values elsewhere
Layout(n, starts) ==
    [i \in 1..n |-> IF (i - 1) \in starts THEN START_BYTE ELSE 1 + (i % 3)]

\* lengths and START_BYTE placements of the long records: around the
\* distance START_BYTE itself encodes (126) and at the longest frame (253)
LongLens == {126, 127, 253}

StartPlaces == {0, 1, 126, 127, 252}

LongRecords ==
    UNION {{Layout(n, starts) : starts \in SUBSET (StartPlaces \cap 0..(n - 1))} :
            n \in LongLens}

InitSession ==
    /\ status = [s \in Sessions |-> "Continue"]
    /\ transfer_state = [s \in Sessions |-> "FindStartByte"]
    /\ id_byte = [s \in Sessions |-> 0]
    /\ overhead_byte = [s \in Sessions |-> 0]
    /\ payload_length = [s \in Sessions |-> 0]
    /\ payload = [s \in Sessions |-> <<>>]
    /\ polynomial = POLYNOMIAL
    /\ table = <<>>
    /\ pc = [s \in Sessions |-> "idle"]
    /\ ret = [s \in Sessions |-> "none"]
    /\ delivered = [s \in Sessions |-> <<>>]
    /\ tx = [s \in Sessions |-> <<>>]

InitCodecIdle ==
    /\ stage = "raw"
    /\ encoded = <<>>
    /\ decoded = <<>>
    /\ reference_index = 0

----------------------------------------------------------------------------
(* send *)

\* send::<T, COUNT>(data) when the port accepts the write
Send(s) ==
    /\ pc[s] = "idle"
    /\ Len(tx[s]) < MaxWrites
    /\ Len(data) = COUNT[s]
    /\ tx' = [tx EXCEPT ![s] = Append(@, SendPacket(crc, data))]
    /\ ret' = [ret EXCEPT ![s] = "Ok"]
    /\ UNCHANGED <<sessionVars, rx, wire, pc, delivered, fixedVars,
                   codecVars, crcVars>>

\* send when serialport.write fails: the `?` returns the error
SendFails(s) ==
    /\ pc[s] = "idle"
    /\ Len(tx[s]) < MaxWrites
    /\ Len(data) = COUNT[s]
    /\ ret' = [ret EXCEPT ![s] = "Err"]
    /\ UNCHANGED <<sessionVars, portVars, pc, delivered, fixedVars,
                   codecVars, crcVars>>

----------------------------------------------------------------------------
(* The codec applied directly to a payload *)

Encode ==
    /\ stage = "raw"
    /\ encoded' = encode_data_cobs(data)
    /\ stage' = "encoded"
    /\ UNCHANGED <<sessionVars, portVars, callVars, fixedVars, decoded,
                   reference_index,
                   crcVars>>

Decode ==
    /\ stage = "encoded"
    /\ decoded' = decode_data_cobs(encoded, overflow_byte(data))
    /\ stage' = "decoded"
    /\ UNCHANGED <<sessionVars, portVars, callVars, fixedVars, encoded,
                   reference_index,
                   crcVars>>

InitCodec ==
    /\ InitSession
    /\ InitCodecIdle
    /\ data \in ShortRecords \cup LongRecords
    /\ sent = [s \in Sessions |-> <<>>]
    /\ COUNT = [s \in Sessions |-> Len(data)]
    /\ rx = [s \in Sessions |-> <<>>]
    /\ wire = [s \in Sessions |-> <<>>]

NextCodec == Encode \/ Decode \/ Send(1) \/ SendFails(1)

SpecCodec == InitCodec /\ [][NextCodec]_vars

----------------------------------------------------------------------------
(* decode_data_cobs run pass by pass on received bytes *)

\* byte values of the buffers: the offsets 0, 1 and 2, START_BYTE, and
\* values that overflow the index
BufferBytes == {0, 1, 2, START_BYTE, 128, 255}

Fill(n, v) == [i \in 1..n |-> v]

\* payload buffers as a frame of any content leaves them: every short one,
\* and long ones filled with one value
Buffers ==
    SeqsUpTo(BufferBytes, MaxRecordLen)
        \cup {Fill(n, v) : n \in LongLens, v \in BufferBytes}

\* overhead bytes as a frame of any content announces them
Overheads == {0, 1, 2, 125, 126, 127, 252, 253, 255}

\* decode_data_cobs is about to be called with the buffer `encoded` and the
\* session's overhead byte
InitDecode ==
    /\ status = [s \in Sessions |-> "Continue"]
    /\ transfer_state = [s \in Sessions |-> "FindCrc"]
    /\ id_byte = [s \in Sessions |-> 0]
    /\ \E o \in Overheads : overhead_byte = [s \in Sessions |-> o]
    /\ encoded \in Buffers
    /\ payload_length = [s \in Sessions |-> Len(encoded)]
    /\ payload = [s \in Sessions |-> encoded]
    /\ polynomial = POLYNOMIAL
    /\ table = <<>>
    /\ pc = [s \in Sessions |-> "loop"]
    /\ ret = [s \in Sessions |-> "none"]
    /\ delivered = [s \in Sessions |-> <<>>]
    /\ rx = [s \in Sessions |-> <<>>]
    /\ tx = [s \in Sessions |-> <<>>]
    /\ wire = [s \in Sessions |-> <<>>]
    /\ COUNT = [s \in Sessions |-> Len(encoded)]
    /\ data = <<>>
    /\ sent = [s \in Sessions |-> <<>>]
    /\ stage = "encoded"
    /\ decoded = <<>>
    /\ reference_index = 0

\* the call: `let mut reference_index = overhead_byte`
DecodeEnter ==
    /\ stage = "encoded"
    /\ stage' = "decoding"
    /\ decoded' = encoded
    /\ reference_index' = overhead_byte[1]
    /\ UNCHANGED <<sessionVars, portVars, callVars, fixedVars, encoded,
                   crcVars>>

\* the test of the `while` and, if it holds, the body once; the function
\* returns when the test fails or the body breaks
DecodePass ==
    /\ stage = "decoding"
    /\ LET st == DecodeStep([bytes |-> decoded,
                             reference_index |-> reference_index,
                             done |-> FALSE])
       IN  /\ decoded' = st.bytes
           /\ reference_index' = st.reference_index
           /\ stage' = IF st.done THEN "decoded" ELSE "decoding"
    /\ UNCHANGED <<sessionVars, portVars, callVars, fixedVars, encoded,
                   crcVars>>

NextDecode == DecodeEnter \/ DecodePass

\* the loop is not suspended: its next pass is taken
SpecDecode == InitDecode /\ [][NextDecode]_vars /\ WF_vars(DecodePass)

----------------------------------------------------------------------------
(* CRC::new called directly *)

\* the u8 values CRC::new may be given
Polynomials == 0..255

InitCrc ==
    /\ status = [s \in Sessions |-> "Continue"]
    /\ transfer_state = [s \in Sessions |-> "FindStartByte"]
    /\ id_byte = [s \in Sessions |-> 0]
    /\ overhead_byte = [s \in Sessions |-> 0]
    /\ payload_length = [s \in Sessions |-> 0]
    /\ payload = [s \in Sessions |-> <<>>]
    /\ pc = [s \in Sessions |-> "idle"]
    /\ ret = [s \in Sessions |-> "none"]
    /\ delivered = [s \in Sessions |-> <<>>]
    /\ rx = [s \in Sessions |-> <<>>]
    /\ tx = [s \in Sessions |-> <<>>]
    /\ wire = [s \in Sessions |-> <<>>]
    /\ COUNT = [s \in Sessions |-> 1]
    /\ data = <<>>
    /\ sent = [s \in Sessions |-> <<>>]
    /\ InitCodecIdle
    /\ polynomial \in Polynomials
    /\ table = <<>>

\* CRC::new(polynomial) returns its table
New ==
    /\ table = <<>>
    /\ table' = CRC_new(polynomial)
    /\ UNCHANGED <<sessionVars, portVars, callVars, fixedVars, codecVars,
                   polynomial>>

NextCrc == New

SpecCrc == InitCrc /\ [][NextCrc]_vars

----------------------------------------------------------------------------
(* send instantiated with records of any size *)

\* record sizes outside the range a length byte may announce: the empty
\* record, the sizes 254 and 255, and sizes a u8 does not hold
WideLens == {0, 254, 255, 256, 257}

WideRecords == {Layout(n, starts) : n \in WideLens, starts \in {{}, {0}}}

InitSend ==
    /\ InitSession
    /\ InitCodecIdle
    /\ data \in ShortRecords \cup LongRecords \cup WideRecords
    /\ sent = [s \in Sessions |-> <<>>]
    /\ COUNT = [s \in Sessions |-> Len(data)]
    /\ rx = [s \in Sessions |-> <<>>]
    /\ wire = [s \in Sessions |-> <<>>]

NextSend == Send(1) \/ SendFails(1)

SpecSend == InitSend /\ [][NextSend]_vars

----------------------------------------------------------------------------
(* The line: bytes reach the port one at a time, at any moment *)

Arrive(s) ==
    /\ wire[s] # <<>>
    /\ rx' = [rx EXCEPT ![s] = Append(@, Head(wire[s]))]
    /\ wire' = [wire EXCEPT ![s] = Tail(@)]
    /\ UNCHANGED <<sessionVars, tx, callVars, fixedVars, codecVars, crcVars>>

----------------------------------------------------------------------------
(* available: the arms of `match self.transfer_state` on the byte read *)

FindStartByte(s, byte) ==
    /\ transfer_state[s] = "FindStartByte"
    /\ transfer_state' =
            IF byte = START_BYTE
                THEN [transfer_state EXCEPT ![s] = "FindIdByte"]
                ELSE transfer_state
    /\ UNCHANGED <<status, id_byte, overhead_byte, payload_length, payload,
                   ret, delivered>>

FindIdByte(s, byte) ==
    /\ transfer_state[s] = "FindIdByte"
    /\ id_byte' = [id_byte EXCEPT ![s] = byte]
    /\ transfer_state' = [transfer_state EXCEPT ![s] = "FindOverheadByte"]
    /\ UNCHANGED <<status, overhead_byte, payload_length, payload, ret, delivered>>

FindOverheadByte(s, byte) ==
    /\ transfer_state[s] = "FindOverheadByte"
    /\ overhead_byte' = [overhead_byte EXCEPT ![s] = byte]
    /\ transfer_state' = [transfer_state EXCEPT ![s] = "FindPayloadLength"]
    /\ UNCHANGED <<status, id_byte, payload_length, payload, ret, delivered>>

\* mutant: the upper limit of the length test is off by one (<= for <)
FindPayloadLengthInclusive(s, byte) ==
    /\ transfer_state[s] = "FindPayloadLength"
    /\ IF byte > 0 /\ byte <= MAX_PACKET_SIZE
            THEN /\ payload_length' = [payload_length EXCEPT ![s] = byte]
                 /\ transfer_state' =
                        [transfer_state EXCEPT ![s] = "FindPayload"]
                 /\ payload' = [payload EXCEPT ![s] = <<>>]
                 /\ UNCHANGED status
            ELSE /\ transfer_state' =
                        [transfer_state EXCEPT ![s] = "FindStartByte"]
                 /\ status' = [status EXCEPT ![s] = "PayloadError"]
                 /\ UNCHANGED <<payload_length, payload>>
    /\ UNCHANGED <<id_byte, overhead_byte, ret, delivered>>

FindPayloadLength(s, byte) ==
    /\ transfer_state[s] = "FindPayloadLength"
    /\ IF byte > 0 /\ byte < MAX_PACKET_SIZE
            THEN /\ payload_length' = [payload_length EXCEPT ![s] = byte]
                 /\ transfer_state' =
                        [transfer_state EXCEPT ![s] = "FindPayload"]
                 /\ payload' = [payload EXCEPT ![s] = <<>>]
                 /\ UNCHANGED status
            ELSE /\ transfer_state' =
                        [transfer_state EXCEPT ![s] = "FindStartByte"]
                 /\ status' = [status EXCEPT ![s] = "PayloadError"]
                 /\ UNCHANGED <<payload_length, payload>>
    /\ UNCHANGED <<id_byte, overhead_byte, ret, delivered>>

\* mutant: the buffer takes one byte more than the declared length before
\* the parser goes on to FindCrc
FindPayloadLate(s, byte) ==
    /\ transfer_state[s] = "FindPayload"
    /\ payload' = [payload EXCEPT ![s] = Append(@, byte)]
    /\ transfer_state' =
            [transfer_state EXCEPT ![s] =
                IF Len(payload[s]) + 1 > payload_length[s]
                    THEN "FindCrc" ELSE "FindPayload"]
    /\ UNCHANGED <<status, id_byte, overhead_byte, payload_length, ret, delivered>>

FindPayload(s, byte) ==
    /\ transfer_state[s] = "FindPayload"
    /\ IF Len(payload[s]) < payload_length[s]
            THEN /\ payload' = [payload EXCEPT ![s] = Append(@, byte)]
                 /\ transfer_state' =
                        [transfer_state EXCEPT ![s] =
                            IF Len(payload[s]) + 1 = payload_length[s]
                                THEN "FindCrc" ELSE "FindPayload"]
            ELSE UNCHANGED <<payload, transfer_state>>
    /\ UNCHANGED <<status, id_byte, overhead_byte, payload_length, ret, delivered>>

\* mutant: the checksum compared also covers the overhead byte
FindCrcCoversHeader(s, byte) ==
    /\ transfer_state[s] = "FindCrc"
    /\ LET calculated_crc ==
                Xor(calculate(crc, payload[s], Some(payload_length[s])),
                    overhead_byte[s])
           received_crc == byte
       IN  /\ payload' = [payload EXCEPT ![s] =
                            decode_data_cobs(@, overhead_byte[s])]
           /\ IF calculated_crc = received_crc
                THEN /\ transfer_state' =
                            [transfer_state EXCEPT ![s] = "FindStopByte"]
                     /\ UNCHANGED status
                ELSE /\ transfer_state' =
                            [transfer_state EXCEPT ![s] = "FindStartByte"]
                     /\ status' = [status EXCEPT ![s] = "CrcError"]
    /\ UNCHANGED <<id_byte, overhead_byte, payload_length, ret, delivered>>

\* mutant: after a checksum mismatch the parser stays in FindCrc and takes
\* the next byte as the checksum
FindCrcWaits(s, byte) ==
    /\ transfer_state[s] = "FindCrc"
    /\ LET calculated_crc ==
                calculate(crc, payload[s], Some(payload_length[s]))
           received_crc == byte
       IN  IF calculated_crc = received_crc
                THEN /\ payload' = [payload EXCEPT ![s] =
                                    decode_data_cobs(@, overhead_byte[s])]
                     /\ transfer_state' =
                            [transfer_state EXCEPT ![s] = "FindStopByte"]
                     /\ UNCHANGED status
                ELSE /\ status' = [status EXCEPT ![s] = "CrcError"]
                     /\ UNCHANGED <<payload, transfer_state>>
    /\ UNCHANGED <<id_byte, overhead_byte, payload_length, ret, delivered>>

FindCrc(s, byte) ==
    /\ transfer_state[s] = "FindCrc"
    /\ LET calculated_crc ==
                calculate(crc, payload[s], Some(payload_length[s]))
           received_crc == byte
       IN  /\ payload' = [payload EXCEPT ![s] =
                            decode_data_cobs(@, overhead_byte[s])]
           /\ IF calculated_crc = received_crc
                THEN /\ transfer_state' =
                            [transfer_state EXCEPT ![s] = "FindStopByte"]
                     /\ UNCHANGED status
                ELSE /\ transfer_state' =
                            [transfer_state EXCEPT ![s] = "FindStartByte"]
                     /\ status' = [status EXCEPT ![s] = "CrcError"]
    /\ UNCHANGED <<id_byte, overhead_byte, payload_length, ret, delivered>>

\* mutant: the record is handed over whatever its length (an unchecked copy
\* in place of try_into)
FindStopByteUnchecked(s, byte) ==
    /\ transfer_state[s] = "FindStopByte"
    /\ transfer_state' = [transfer_state EXCEPT ![s] = "FindStartByte"]
    /\ IF byte = STOP_BYTE
            THEN /\ status' = [status EXCEPT ![s] = "NewData"]
                 /\ ret' = [ret EXCEPT ![s] = "Some"]
                 /\ delivered' = [delivered EXCEPT ![s] = Append(@, payload[s])]
            ELSE /\ status' = [status EXCEPT ![s] = "StopByteError"]
                 /\ UNCHANGED <<ret, delivered>>
    /\ UNCHANGED <<id_byte, overhead_byte, payload_length, payload>>

\* payload.clone().try_into() to [u8; COUNT] succeeds on equal lengths only;
\* the Ok arm returns from available with the record
\* mutant: after a wrong stop byte the parser keeps waiting for STOP_BYTE
FindStopByteWaits(s, byte) ==
    /\ transfer_state[s] = "FindStopByte"
    /\ IF byte = STOP_BYTE
            THEN /\ transfer_state' =
                        [transfer_state EXCEPT ![s] = "FindStartByte"]
                 /\ IF Len(payload[s]) = COUNT[s]
                        THEN /\ status' = [status EXCEPT ![s] = "NewData"]
                             /\ ret' = [ret EXCEPT ![s] = "Some"]
                             /\ delivered' =
                                    [delivered EXCEPT ![s] =
                                        Append(@, payload[s])]
                        ELSE /\ status' =
                                    [status EXCEPT ![s] = "PayloadError"]
                             /\ UNCHANGED <<ret, delivered>>
            ELSE /\ status' = [status EXCEPT ![s] = "StopByteError"]
                 /\ UNCHANGED <<transfer_state, ret, delivered>>
    /\ UNCHANGED <<id_byte, overhead_byte, payload_length, payload>>

FindStopByte(s, byte) ==
    /\ transfer_state[s] = "FindStopByte"
    /\ transfer_state' = [transfer_state EXCEPT ![s] = "FindStartByte"]
    /\ IF byte = STOP_BYTE
            THEN IF Len(payload[s]) = COUNT[s]
                    THEN /\ status' = [status EXCEPT ![s] = "NewData"]
                         /\ ret' = [ret EXCEPT ![s] = "Some"]
                         /\ delivered' =
                                [delivered EXCEPT ![s] = Append(@, payload[s])]
                    ELSE /\ status' = [status EXCEPT ![s] = "PayloadError"]
                         /\ UNCHANGED <<ret, delivered>>
            ELSE /\ status' = [status EXCEPT ![s] = "StopByteError"]
                 /\ UNCHANGED <<ret, delivered>>
    /\ UNCHANGED <<id_byte, overhead_byte, payload_length, payload>>

----------------------------------------------------------------------------
(* available *)

\* mutant: available starts every call from FindStartByte instead of
\* resuming where the last call stopped
PollCallRestarts(s) ==
    /\ pc[s] = "idle"
    /\ pc' = [pc EXCEPT ![s] = "call"]
    /\ transfer_state' = [transfer_state EXCEPT ![s] = "FindStartByte"]
    /\ UNCHANGED <<status, id_byte, overhead_byte, payload_length, payload,
                   portVars, ret, delivered, fixedVars, codecVars, crcVars>>

\* the caller enters available::<T, COUNT>()
PollCall(s) ==
    /\ pc[s] = "idle"
    /\ pc' = [pc EXCEPT ![s] = "call"]
    /\ UNCHANGED <<sessionVars, portVars, ret, delivered, fixedVars,
                   codecVars, crcVars>>

InCall(s) == pc[s] \in {"call", "loop"}

\* one pass of the while loop: bytes_to_read() > 0, one byte is read and
\* matched against the state; the pass that hands over a record returns
\* from available, every other pass goes back to the loop condition
PollByte(s) ==
    /\ InCall(s)
    /\ rx[s] # <<>>
    /\ rx' = [rx EXCEPT ![s] = Tail(@)]
    /\ LET byte == Head(rx[s])
       IN  \/ FindStartByte(s, byte)
           \/ FindIdByte(s, byte)
           \/ FindOverheadByte(s, byte)
           \/ FindPayloadLength(s, byte)
           \/ FindPayload(s, byte)
           \/ FindCrc(s, byte)
           \/ FindStopByte(s, byte)
    /\ pc' = [pc EXCEPT ![s] =
                IF delivered'[s] # delivered[s] THEN "idle" ELSE "loop"]
    /\ UNCHANGED <<tx, wire, fixedVars, codecVars, crcVars>>

\* mutant: available gives up with Ok(None) although bytes are readable
PollReturnEarly(s) ==
    /\ InCall(s)
    /\ pc' = [pc EXCEPT ![s] = "idle"]
    /\ ret' = [ret EXCEPT ![s] = "None"]
    /\ UNCHANGED <<sessionVars, portVars, delivered, fixedVars, codecVars,
                   crcVars>>

\* bytes_to_read() is 0: the loop ends and available returns Ok(None)
PollReturn(s) ==
    /\ InCall(s)
    /\ rx[s] = <<>>
    /\ pc' = [pc EXCEPT ![s] = "idle"]
    /\ ret' = [ret EXCEPT ![s] = "None"]
    /\ UNCHANGED <<sessionVars, portVars, delivered, fixedVars, codecVars,
                   crcVars>>

\* bytes_to_read() fails: the `?` returns the error
ProbeFails(s) ==
    /\ InCall(s)
    /\ pc' = [pc EXCEPT ![s] = "idle"]
    /\ ret' = [ret EXCEPT ![s] = "Err"]
    /\ UNCHANGED <<sessionVars, portVars, delivered, fixedVars, codecVars,
                   crcVars>>

\* mutant: a failed read() throws the frame in progress away
ReadFailsResets(s) ==
    /\ InCall(s)
    /\ rx[s] # <<>>
    /\ pc' = [pc EXCEPT ![s] = "idle"]
    /\ ret' = [ret EXCEPT ![s] = "Err"]
    /\ transfer_state' = [transfer_state EXCEPT ![s] = "FindStartByte"]
    /\ UNCHANGED <<status, id_byte, overhead_byte, payload_length, payload,
                   portVars, delivered, fixedVars, codecVars, crcVars>>

\* read() fails after bytes_to_read() reported a byte: the `?` returns the
\* error and the byte stays in the port
ReadFails(s) ==
    /\ InCall(s)
    /\ rx[s] # <<>>
    /\ pc' = [pc EXCEPT ![s] = "idle"]
    /\ ret' = [ret EXCEPT ![s] = "Err"]
    /\ UNCHANGED <<sessionVars, portVars, delivered, fixedVars, codecVars,
                   crcVars>>

Receive(s) ==
    \/ Arrive(s)
    \/ PollCall(s)
    \/ PollByte(s)
    \/ PollReturn(s)
    \/ ProbeFails(s)
    \/ ReadFails(s)

----------------------------------------------------------------------------
(* Streams a peer can put on the line *)

\* record sizes the receiving caller may ask for
RecordSizes == 1..MaxRecordLen

\* byte values of the records whose frames are put on the line
WireBytes == {1, START_BYTE}

WireRecords == SeqsUpTo(WireBytes, MaxRecordLen)

Frame(record) == SendPacket(crc, record)

\* values a damaged byte of a frame takes
DamageBytes == {0, 1, START_BYTE, 253, 254, 255}

Damaged(frame) ==
    {[frame EXCEPT ![i] = v] : i \in 1..Len(frame), v \in DamageBytes}

Noise == {<<0, 255>>, <<255>>}

\* one frame, intact or with one byte damaged, alone or followed by an
\* intact frame of n bytes; or noise followed by an intact frame
Streams(n) ==
    LET firsts == UNION {Damaged(Frame(r)) : r \in WireRecords}
        follow == Frame(Layout(n, {0}))
    IN  firsts
            \cup {f \o follow : f \in firsts}
            \cup {z \o Frame(r) : z \in Noise, r \in WireRecords}

InitReceive ==
    /\ InitSession
    /\ InitCodecIdle
    /\ rx = [s \in Sessions |-> <<>>]

Init ==
    /\ InitReceive
    /\ data = <<>>
    /\ sent = [s \in Sessions |-> <<>>]
    /\ \E n \in RecordSizes :
            /\ COUNT = [s \in Sessions |-> n]
            /\ \E stream \in Streams(n) :
                    wire = [s \in Sessions |-> IF s = 1 THEN stream ELSE <<>>]

Next == Receive(1)

Spec == Init /\ [][Next]_vars

\* a frame of a record of each kind, alone on the line of a receiver asking
\* for records of that size
LoopRecords ==
    ShortRecords \cup {Layout(127, starts) : starts \in SUBSET {0, 126}}

InitLoop ==
    /\ InitReceive
    /\ data = <<>>
    /\ \E record \in LoopRecords :
            /\ sent = [s \in Sessions |-> IF s = 1 THEN <<record>> ELSE <<>>]
            /\ COUNT = [s \in Sessions |-> Len(record)]
            /\ wire = [s \in Sessions |->
                        IF s = 1 THEN Frame(record) ELSE <<>>]

SpecLoop == InitLoop /\ [][Next]_vars

\* one frame of a record of n bytes (without 0x7E, or starting with it),
\* intact or with one byte damaged; or an intact frame followed by a second
\* one; or noise followed by a frame
LiveStreams(n) ==
    LET records == {Layout(n, starts) : starts \in {{}, {0}}}
    IN  UNION {Damaged(Frame(r)) : r \in records}
            \cup {Frame(a) \o Frame(Layout(n, {0})) : a \in records}
            \cup {z \o Frame(r) : z \in Noise, r \in records}

InitLive ==
    /\ InitReceive
    /\ data = <<>>
    /\ sent = [s \in Sessions |-> <<>>]
    /\ \E n \in RecordSizes :
            /\ COUNT = [s \in Sessions |-> n]
            /\ \E stream \in LiveStreams(n) :
                    wire = [s \in Sessions |-> IF s = 1 THEN stream ELSE <<>>]

\* a call of available is not suspended: no statement of its loop blocks,
\* so its next pass (consume a byte, or return on an empty port) is taken
SpecLive ==
    InitLive /\ [][Next]_vars /\ WF_vars(PollByte(1) \/ PollReturn(1))

\* the frame with its checksum byte altered by the bit mask m
DamagedCrc(frame, m) ==
    [frame EXCEPT ![Len(frame) - 1] = Xor(@, m)]

CrcMasks == {1, 128}

\* what is put on a line: the frame of A, the frame of C with its checksum
\* byte altered by mask m, the frame of B, all records of one size: every
\* triple of short records with every mask, and one triple of long records
ResyncLines ==
    UNION {[A : {r \in WireRecords : Len(r) = n},
            C : {r \in WireRecords : Len(r) = n},
            B : {r \in WireRecords : Len(r) = n},
            m : CrcMasks] : n \in RecordSizes}
        \cup {[A |-> Layout(127, {0}), C |-> Layout(127, {}),
                B |-> Layout(127, {126}), m |-> 128]}

\* the receiver asks for records of the size of A, C and B
InitResync ==
    /\ InitReceive
    /\ data = <<>>
    /\ \E t \in ResyncLines :
            /\ sent = [s \in Sessions |-> IF s = 1 THEN <<t.A, t.B>> ELSE <<>>]
            /\ COUNT = [s \in Sessions |-> Len(t.A)]
            /\ wire = [s \in Sessions |->
                        IF s = 1
                            THEN Frame(t.A) \o DamagedCrc(Frame(t.C), t.m)
                                    \o Frame(t.B)
                            ELSE <<>>]

SpecResync == InitResync /\ [][Next]_vars

----------------------------------------------------------------------------
(* Noise in front of a frame *)

\* what is put on a line: a run z of bytes other than START_BYTE, then the
\* frame of a record: every short record after every run, and two long
\* records after one run
NoiseLines ==
    [z : Noise \cup {<<0, 255, STOP_BYTE, 1>>}, record : ShortRecords]
        \cup [z : {<<0, 255>>},
              record : {Layout(127, {}), Layout(127, {0})}]

\* the receiver asks for records of the size of the framed record
InitNoise ==
    /\ InitReceive
    /\ data = <<>>
    /\ \E t \in NoiseLines :
            /\ sent = [s \in Sessions |->
                        IF s = 1 THEN <<t.record>> ELSE <<>>]
            /\ COUNT = [s \in Sessions |-> Len(t.record)]
            /\ wire = [s \in Sessions |->
                        IF s = 1 THEN t.z \o Frame(t.record) ELSE <<>>]

SpecNoise == InitNoise /\ [][Next]_vars

----------------------------------------------------------------------------
(* A frame with a wrong stop byte, then an intact frame *)

\* values found in the place of the stop byte
StopDamage == {0, 1, START_BYTE, STOP_BYTE - 1, STOP_BYTE + 1, 255}

\* what is put on a line: the frame of C with v in the place of its stop
\* byte, then the frame of B, both records of one size
StopLines ==
    UNION {[C : {r \in WireRecords : Len(r) = n},
            B : {r \in WireRecords : Len(r) = n},
            v : StopDamage] : n \in RecordSizes}

InitStop ==
    /\ InitReceive
    /\ data = <<>>
    /\ \E t \in StopLines :
            /\ sent = [s \in Sessions |-> IF s = 1 THEN <<t.B>> ELSE <<>>]
            /\ COUNT = [s \in Sessions |-> Len(t.B)]
            /\ wire = [s \in Sessions |->
                        IF s = 1
                            THEN [Frame(t.C) EXCEPT ![Len(t.C) + 6] = t.v]
                                    \o Frame(t.B)
                            ELSE <<>>]

SpecStop == InitStop /\ [][Next]_vars

----------------------------------------------------------------------------
(* Frames of the longest declared length *)

\* the frame of a record of 253 bytes, and a start byte followed by a
\* header announcing 253 bytes and a run of START_BYTE
LongStreams ==
    {Frame(Layout(253, {})),
     <<START_BYTE, START_BYTE, START_BYTE, 253>> \o Fill(255, START_BYTE)}

\* one of the long streams, the receiver asking for 253 bytes; or one of
\* the short streams
InitBound ==
    /\ InitReceive
    /\ data = <<>>
    /\ sent = [s \in Sessions |-> <<>>]
    /\ \/ /\ COUNT = [s \in Sessions |-> 253]
          /\ \E stream \in LongStreams :
                wire = [s \in Sessions |-> IF s = 1 THEN stream ELSE <<>>]
       \/ \E n \in RecordSizes :
            /\ COUNT = [s \in Sessions |-> n]
            /\ \E stream \in LiveStreams(n) :
                    wire = [s \in Sessions |-> IF s = 1 THEN stream ELSE <<>>]

SpecBound == InitBound /\ [][Next]_vars

----------------------------------------------------------------------------
(* A session that both sends and receives over a failing link *)

\* records of n bytes without START_BYTE, or starting with it
LinkRecords(n) == {Layout(n, starts) : starts \in {{}, {0}}}

\* two intact frames are on the line; the caller has a record to send
InitLink ==
    /\ InitReceive
    /\ \E n \in RecordSizes :
            /\ COUNT = [s \in Sessions |-> n]
            /\ data \in LinkRecords(n)
            /\ \E a, b \in LinkRecords(n) :
                    /\ sent = [s \in Sessions |->
                                IF s = 1 THEN <<a, b>> ELSE <<>>]
                    /\ wire = [s \in Sessions |->
                                IF s = 1 THEN Frame(a) \o Frame(b) ELSE <<>>]

NextLink == Receive(1) \/ Send(1) \/ SendFails(1)

SpecLink == InitLink /\ [][NextLink]_vars

----------------------------------------------------------------------------
(* Two sessions given the same byte stream, cut differently *)

\* the line hands session s its next byte only between two calls of
\* available and only once the port is empty: one byte per call
Trickle(s) ==
    /\ pc[s] = "idle"
    /\ rx[s] = <<>>
    /\ Arrive(s)

\* one possibly damaged frame, or two intact frames of n bytes each
PairStreams(n) ==
    UNION {Damaged(Frame(r)) : r \in WireRecords}
        \cup {Frame(a) \o Frame(b) :
                a, b \in {r \in WireRecords : Len(r) = n}}

\* session 1 has the stream on its line; session 2 has all of it in its
\* port before its first call
InitPair ==
    /\ InitSession
    /\ InitCodecIdle
    /\ data = <<>>
    /\ sent = [s \in Sessions |-> <<>>]
    /\ \E n \in RecordSizes :
            /\ COUNT = [s \in Sessions |-> n]
            /\ \E stream \in PairStreams(n) :
                    /\ wire = [s \in Sessions |->
                                IF s = 1 THEN stream ELSE <<>>]
                    /\ rx = [s \in Sessions |->
                                IF s = 2 THEN stream ELSE <<>>]

Poll(s) == PollCall(s) \/ PollByte(s) \/ PollReturn(s)

NextPair == Trickle(1) \/ Poll(1) \/ Poll(2)

SpecPair == InitPair /\ [][NextPair]_vars

----------------------------------------------------------------------------
(* Two sessions given frames that differ in the header only *)

\* values put in the place of the identifier and of the overhead byte
HeaderBytes == {0, 1, START_BYTE, 255}

\* the frame with identifier i and overhead byte o
Reheaded(frame, i, o) == [frame EXCEPT ![2] = i, ![3] = o]

\* session 1 holds in its port the frame of a record, intact or with its
\* checksum byte altered; session 2 holds the same bytes with another
\* identifier and overhead byte
InitHeader ==
    /\ InitSession
    /\ InitCodecIdle
    /\ data = <<>>
    /\ sent = [s \in Sessions |-> <<>>]
    /\ wire = [s \in Sessions |-> <<>>]
    /\ \E record \in WireRecords, i, o \in HeaderBytes :
            /\ COUNT = [s \in Sessions |-> Len(record)]
            /\ \E frame \in {Frame(record), DamagedCrc(Frame(record), 1)} :
                    rx = [s \in Sessions |->
                            IF s = 1 THEN frame ELSE Reheaded(frame, i, o)]

NextHeader == Poll(1) \/ Poll(2)

SpecHeader == InitHeader /\ [][NextHeader]_vars

----------------------------------------------------------------------------
(* Properties *)

Last(seq) == seq[Len(seq)]

\* the fields of a written packet
PacketOverhead(packet) == packet[3]

PacketLength(packet) == packet[4]

PacketPayload(packet) == SubSeq(packet, 5, Len(packet) - 2)

\* a step of session s in which available reads a byte from the port
Consumes(s) == InCall(s) /\ rx[s] # <<>> /\ rx'[s] = Tail(rx[s])

\* a step in which available returns a record to the caller of session s
Delivers(s) == delivered'[s] # delivered[s]

\* C1: stuffing round trip.  Once a payload of 1..253 bytes has been encoded
\* and the result decoded with the payload's overhead byte, the decoded
\* bytes equal the payload.
C1_RoundTrip ==
    (stage = "decoded" /\ Len(data) \in 1..253) => decoded = data

\* C2: end to end.  When poll hands over a record from the frame a peer's
\* send wrote for a record of N bytes (receiver in its initial state, asking
\* for N bytes), the record equals the one sent, the status is NewData and
\* the parser is in FindStartByte; and the stuffed payload of that frame
\* differs from the record wherever the record holds START_BYTE.
C2_EndToEnd ==
    (ret[1] = "Some" /\ Len(delivered[1]) = 1) =>
        LET record == sent[1][1]
        IN  /\ delivered[1][1] = record
            /\ status[1] = "NewData"
            /\ transfer_state[1] = "FindStartByte"
            /\ \A i \in 1..Len(record) :
                    record[i] = START_BYTE =>
                        PacketPayload(Frame(record))[i] # record[i]

\* C3: sentinel exclusion.  No packet written by send for a record of
\* 1..253 bytes holds START_BYTE in its overhead byte or among its stuffed
\* payload bytes.
C3_SentinelExcluded ==
    \A k \in 1..Len(tx[1]) :
        Len(data) \in 1..253 =>
            /\ PacketOverhead(tx[1][k]) # START_BYTE
            /\ \A i \in 1..Len(PacketPayload(tx[1][k])) :
                    PacketPayload(tx[1][k])[i] # START_BYTE

\* C4: delivery only on a good stop byte and matching size.  A step returns
\* a record only if it consumes the byte STOP_BYTE in FindStopByte while the
\* payload buffer has exactly COUNT bytes, and the record is that buffer; a
\* step consuming STOP_BYTE in FindStopByte with a buffer of another size
\* sets PayloadError, returns nothing, moves to FindStartByte and stays in
\* the loop.
C4_Step ==
    /\ Delivers(1) =>
            /\ Consumes(1)
            /\ transfer_state[1] = "FindStopByte"
            /\ Head(rx[1]) = STOP_BYTE
            /\ Len(payload[1]) = COUNT[1]
            /\ delivered'[1] = Append(delivered[1], payload[1])
            /\ ret'[1] = "Some"
            /\ pc'[1] = "idle"
    /\ ( /\ Consumes(1)
         /\ transfer_state[1] = "FindStopByte"
         /\ Head(rx[1]) = STOP_BYTE
         /\ Len(payload[1]) # COUNT[1] ) =>
            /\ status'[1] = "PayloadError"
            /\ delivered'[1] = delivered[1]
            /\ ret'[1] = ret[1]
            /\ transfer_state'[1] = "FindStartByte"
            /\ pc'[1] = "loop"

C4_DeliveryOnlyOnStopAndSize == [][C4_Step]_vars

\* a frame of another size than COUNT was received whole (nothing was
\* delivered for it) and the parser has gone on to the next frame's start
C4_Witness ==
    /\ status[1] = "PayloadError"
    /\ payload[1] # <<>>
    /\ Len(payload[1]) = payload_length[1]
    /\ Len(payload[1]) # COUNT[1]
    /\ delivered[1] = <<>>
    /\ transfer_state[1] = "FindIdByte"

\* C5: length boundary.  A step consuming a byte in FindPayloadLength: for
\* 0, 254 and 255 it sets PayloadError, goes to FindStartByte and delivers
\* nothing; for 1..253 it stores the byte as the declared length, clears the
\* payload buffer and goes to FindPayload.
C5_Step ==
    (Consumes(1) /\ transfer_state[1] = "FindPayloadLength") =>
        LET byte == Head(rx[1])
        IN  /\ byte \in {0, 254, 255} =>
                /\ status'[1] = "PayloadError"
                /\ transfer_state'[1] = "FindStartByte"
                /\ ~Delivers(1)
            /\ byte \in 1..253 =>
                /\ payload_length'[1] = byte
                /\ payload'[1] = <<>>
                /\ transfer_state'[1] = "FindPayload"
                /\ status'[1] = status[1]
                /\ ~Delivers(1)

C5_LengthBoundary == [][C5_Step]_vars

\* the length byte 253 has been accepted
C5_Witness ==
    /\ transfer_state[1] = "FindPayload"
    /\ payload_length[1] = 253
    /\ payload[1] = <<>>

\* bytes of the line of session s not yet read by available
Unread(s) == Len(wire[s]) + Len(rx[s])

\* C6: resync after corruption.  With the frame of A, the frame of C with
\* an altered checksum byte and the frame of B on the line, in any chunking:
\* the records delivered so far are always a prefix of <<A, B>>; once the
\* checksum byte of the damaged frame has been read the status is CrcError
\* and only A has been delivered; once the line is drained exactly A and B
\* have been delivered, in this order.
C6_Resync ==
    LET A == sent[1][1]
        B == sent[1][2]
        frame == Len(A) + 6
    IN  /\ delivered[1] \in {<<>>, <<A>>, <<A, B>>}
        /\ Unread(1) = frame + 1 =>
                (status[1] = "CrcError" /\ delivered[1] = <<A>>)
        /\ Unread(1) = 0 => delivered[1] = <<A, B>>

\* the parser fields of session s
Parser(s) ==
    [transfer_state |-> transfer_state[s], id_byte |-> id_byte[s],
     overhead_byte |-> overhead_byte[s], payload_length |-> payload_length[s],
     payload |-> payload[s], status |-> status[s]]

\* C7: chunking independence.  Session 1 gets a stream one byte per call of
\* available, session 2 gets all of it before its first call: once both
\* have read the whole stream they have delivered the same records and
\* hold the same phase, identifier, overhead byte, declared length, payload
\* buffer and status.
C7_ChunkingIndependent ==
    (Unread(1) = 0 /\ Unread(2) = 0) =>
        /\ delivered[1] = delivered[2]
        /\ Parser(1) = Parser(2)

\* both sessions have read a stream of two frames and delivered two records
C7_Witness ==
    /\ Unread(1) = 0
    /\ Unread(2) = 0
    /\ Len(delivered[1]) = 2
    /\ Len(delivered[2]) = 2

\* C8: poll return points.  The byte that completes a frame of the requested
\* size ends the call with that one record and leaves the later bytes in the
\* port; a call hands over at most one record; a call returns no record
\* only when the port reports zero bytes; and every call returns.
C8_Step ==
    /\ (/\ Consumes(1)
        /\ transfer_state[1] = "FindStopByte"
        /\ Head(rx[1]) = STOP_BYTE
        /\ Len(payload[1]) = COUNT[1]) =>
            /\ delivered'[1] = Append(delivered[1], payload[1])
            /\ pc'[1] = "idle"
            /\ ret'[1] = "Some"
            /\ wire'[1] = wire[1]
    /\ Delivers(1) =>
            /\ Consumes(1)
            /\ Len(delivered'[1]) = Len(delivered[1]) + 1
            /\ pc'[1] = "idle"
            /\ ret'[1] = "Some"
    /\ (InCall(1) /\ pc'[1] = "idle" /\ ret'[1] = "None") =>
            /\ rx[1] = <<>>
            /\ rx'[1] = <<>>
            /\ ~Delivers(1)

C8_ReturnPoints ==
    /\ [][C8_Step]_vars
    /\ InCall(1) ~> (pc[1] = "idle")

\* a call has returned a record and left later bytes unread in the port
C8_Witness ==
    /\ pc[1] = "idle"
    /\ ret[1] = "Some"
    /\ Len(delivered[1]) = 1
    /\ rx[1] # <<>>

\* C9: status tracking.  A consumed byte that leaves the parser inside a
\* frame sets the status to Continue; a call that finds no byte available
\* sets the status to NoData.
C9_Step ==
    /\ (Consumes(1) /\ transfer_state'[1] # "FindStartByte") =>
            status'[1] = "Continue"
    /\ (pc[1] = "call" /\ rx[1] = <<>> /\ pc'[1] = "idle"
            /\ ret'[1] = "None") =>
            status'[1] = "NoData"

C9_StatusTracking == [][C9_Step]_vars

\* C10: CrcError handling.  A step consuming in FindCrc a byte that differs
\* from the checksum of the payload buffer goes to FindStartByte with status
\* CrcError, delivers nothing and leaves the payload buffer as received.
C10_Step ==
    (/\ Consumes(1)
     /\ transfer_state[1] = "FindCrc"
     /\ Head(rx[1]) # calculate(crc, payload[1], Some(payload_length[1]))) =>
        /\ transfer_state'[1] = "FindStartByte"
        /\ status'[1] = "CrcError"
        /\ ~Delivers(1)
        /\ payload'[1] = payload[1]

C10_CrcErrorHandling == [][C10_Step]_vars

\* C11: link errors leave the parser untouched.  A call of available that
\* ends with the link's error, and a send whose write fails, leave phase,
\* status, identifier, overhead byte, declared length and payload buffer as
\* they were and write nothing; and whatever failures occurred on the way,
\* once the two frames on the line are read both records were delivered.
C11_Step ==
    /\ (InCall(1) /\ pc'[1] = "idle" /\ ret'[1] = "Err") =>
            /\ Parser(1)' = Parser(1)
            /\ ~Delivers(1)
    /\ (pc[1] = "idle" /\ ret[1] # "Err" /\ ret'[1] = "Err") =>
            /\ Parser(1)' = Parser(1)
            /\ tx'[1] = tx[1]

C11_LinkErrors ==
    /\ [][C11_Step]_vars
    /\ [](Unread(1) = 0 => delivered[1] = sent[1])

\* a call failed in the middle of the second frame, the first record
\* having been delivered
C11_Witness ==
    /\ ret[1] = "Err"
    /\ transfer_state[1] = "FindCrc"
    /\ Len(delivered[1]) = 1

\* the checksum of all the bytes of a sequence: the table folded over every
\* byte, from 0
ChecksumOfAll(bytes) ==
    CrcRange(crc, bytes, [crc |-> 0, broke |-> FALSE], 0, Len(bytes)).crc

\* C12: frame layout on send.  Every packet send has written is START_BYTE,
\* 0, the index of the first START_BYTE of the record (255 if none), the
\* number of stuffed bytes, the stuffed bytes, the checksum of all the
\* stuffed bytes, STOP_BYTE.
C12_FrameLayout ==
    \A k \in 1..Len(tx[1]) :
        LET packet == tx[1][k]
            stuffed == encode_data_cobs(data)
            overhead == IF HasStart(data) THEN FirstStart(data) ELSE 255
        IN  packet = <<START_BYTE, 0, overhead, Len(stuffed)>>
                        \o stuffed
                        \o <<ChecksumOfAll(stuffed), STOP_BYTE>>

\* C13: frame length invariant.  Every packet send has written carries a
\* length byte in 1..253 and exactly that many bytes between the length
\* byte and the checksum byte.
C13_FrameLength ==
    \A k \in 1..Len(tx[1]) :
        LET packet == tx[1][k]
        IN  /\ PacketLength(packet) \in 1..253
            /\ Len(PacketPayload(packet)) = PacketLength(packet)

\* the parser fields SerialTransfer::new sets
NewParser ==
    [transfer_state |-> "FindStartByte", id_byte |-> 0, overhead_byte |-> 0,
     payload_length |-> 0, payload |-> <<>>, status |-> "Continue"]

\* C14: noise before a frame is ignored.  With a run of bytes other than
\* START_BYTE and then the frame of a record on the line: as long as only
\* bytes of the run have been read the parser fields are what they were
\* before the run, and once the line is read the record has been delivered.
C14_NoiseIgnored ==
    LET frame == Len(sent[1][1]) + 6
    IN  /\ Unread(1) >= frame => Parser(1) = NewParser
        /\ Unread(1) = 0 => delivered[1] = sent[1]

\* C15: StopByteError recovery.  A step consuming in FindStopByte a byte
\* other than STOP_BYTE sets StopByteError, goes to FindStartByte and
\* delivers nothing; and with an intact frame behind the spoilt one, once
\* the line is read exactly the record of the intact frame has been
\* delivered, with status NewData.
C15_Step ==
    (/\ Consumes(1)
     /\ transfer_state[1] = "FindStopByte"
     /\ Head(rx[1]) # STOP_BYTE) =>
        /\ status'[1] = "StopByteError"
        /\ transfer_state'[1] = "FindStartByte"
        /\ ~Delivers(1)

C15_StopByteRecovery ==
    /\ [][C15_Step]_vars
    /\ [](Unread(1) = 0 =>
            (delivered[1] = sent[1] /\ status[1] = "NewData"))

\* the wrong stop byte has just been read: nothing was delivered and the
\* intact frame is still to come
C15_Witness ==
    /\ status[1] = "StopByteError"
    /\ transfer_state[1] = "FindStartByte"
    /\ delivered[1] = <<>>
    /\ Unread(1) = Len(sent[1][1]) + 6

\* C16: checksum table construction.  Once CRC::new(p) has returned, for
\* every i in 0..255 the entry table[i] is i after 8 times "shift left, and
\* XOR with p if the top bit was set", in 8-bit arithmetic.
C16_TableConstruction ==
    table # <<>> =>
        \A i \in 0..255 : table[i] = CrcShifts(i, polynomial, 8)

\* C17: payload buffer bound.  The payload buffer is never longer than the
\* declared length; in FindPayload the declared length is in 1..253 and the
\* buffer is strictly shorter; a byte consumed in FindPayload leads to
\* FindCrc exactly when it fills the buffer to the declared length; and in
\* FindCrc the checksum loop runs over exactly the declared number of
\* bytes, never leaving through its `None => break`.
C17_State ==
    /\ Len(payload[1]) <= payload_length[1]
    /\ transfer_state[1] = "FindPayload" =>
            /\ payload_length[1] \in 1..253
            /\ Len(payload[1]) < payload_length[1]
    /\ transfer_state[1] = "FindCrc" =>
            /\ Len(payload[1]) = payload_length[1]
            /\ ~CrcRange(crc, payload[1], [crc |-> 0, broke |-> FALSE],
                         0, payload_length[1]).broke

C17_Step ==
    (Consumes(1) /\ transfer_state[1] = "FindPayload") =>
        /\ payload'[1] = Append(payload[1], Head(rx[1]))
        /\ payload_length'[1] = payload_length[1]
        /\ transfer_state'[1] = "FindCrc"
                <=> Len(payload'[1]) = payload_length'[1]
        /\ transfer_state'[1] \in {"FindCrc", "FindPayload"}

C17_PayloadBound == []C17_State /\ [][C17_Step]_vars

\* a frame announcing 253 bytes is being collected
C17_Witness ==
    /\ transfer_state[1] = "FindPayload"
    /\ payload_length[1] = 253
    /\ Len(payload[1]) = 3

\* C18: the decode chain walk terminates.  For every payload buffer and
\* every overhead byte, a run of decode_data_cobs that has been entered
\* leaves its loop; it does so within 2 * len + 1 passes, so the decode
\* FindCrc performs is the result of a finished run.
C18_DecodeTerminates ==
    /\ (stage = "decoding") ~> (stage = "decoded")
    /\ [](DecodeRun(encoded, overhead_byte[1]).done)
    /\ [](stage = "decoded" =>
            decoded = decode_data_cobs(encoded, overhead_byte[1]))

\* the run over 253 stored offsets of 0, entered at index 0, has returned
C18_Witness ==
    /\ stage = "decoded"
    /\ encoded = Fill(253, 0)
    /\ overhead_byte[1] = 0

\* bytes read since the start byte was accepted, as the phase and the
\* buffer tell it
Since(s) ==
    CASE transfer_state[s] = "FindStartByte" -> 0
      [] transfer_state[s] = "FindIdByte" -> 0
      [] transfer_state[s] = "FindOverheadByte" -> 1
      [] transfer_state[s] = "FindPayloadLength" -> 2
      [] transfer_state[s] = "FindPayload" -> 3 + Len(payload[s])
      [] transfer_state[s] = "FindCrc" -> 3 + payload_length[s]
      [] transfer_state[s] = "FindStopByte" -> 4 + payload_length[s]

\* C19: bounded return to FindStartByte.  Every byte read outside
\* FindStartByte either returns the parser there or is one more byte since
\* the start byte; a rejected length byte returns it with the 3rd byte, a
\* byte read in FindStopByte always returns it; the bytes read since the
\* start byte never exceed L + 4 once the length L <= 253 is declared, so
\* the parser is back after at most L + 5 <= 258 bytes.
C19_Step ==
    /\ (Consumes(1) /\ transfer_state[1] = "FindStartByte"
            /\ Head(rx[1]) = START_BYTE) =>
            (transfer_state'[1] = "FindIdByte" /\ Since(1)' = 0)
    /\ (Consumes(1) /\ transfer_state[1] # "FindStartByte") =>
            \/ transfer_state'[1] = "FindStartByte"
            \/ Since(1)' = Since(1) + 1
    /\ (Consumes(1) /\ transfer_state[1] = "FindPayloadLength"
            /\ Head(rx[1]) \notin 1..253) =>
            (transfer_state'[1] = "FindStartByte" /\ Since(1) + 1 = 3)
    /\ (Consumes(1) /\ transfer_state[1] = "FindStopByte") =>
            transfer_state'[1] = "FindStartByte"

C19_State ==
    /\ transfer_state[1] \in {"FindIdByte", "FindOverheadByte",
                               "FindPayloadLength"} => Since(1) <= 2
    /\ transfer_state[1] \in {"FindPayload", "FindCrc", "FindStopByte"} =>
            /\ payload_length[1] \in 1..253
            /\ Since(1) <= payload_length[1] + 4
    /\ Since(1) <= 257

C19_BoundedReturn == [][C19_Step]_vars /\ []C19_State

\* 257 bytes have been read since the start byte of a frame of 253 payload
\* bytes: the 258th returns the parser to FindStartByte
C19_Witness ==
    /\ transfer_state[1] = "FindStopByte"
    /\ payload_length[1] = 253
    /\ Since(1) = 257

\* C20: header bytes are outside the checksum.  Two sessions reading frames
\* that differ only in identifier and overhead byte are, after the same
\* number of bytes, in the same phase with the same status, declared length
\* and number of delivered records: the checksum verdict is the same, and
\* the frame with the altered header is delivered with NewData whenever the
\* unaltered one is.
C20_HeaderOutsideChecksum ==
    Unread(1) = Unread(2) =>
        /\ transfer_state[2] = transfer_state[1]
        /\ status[2] = status[1]
        /\ payload_length[2] = payload_length[1]
        /\ Len(delivered[2]) = Len(delivered[1])
        /\ (Unread(1) = 0 /\ delivered[1] # <<>>) => status[2] = "NewData"

\* the frame with an altered overhead byte has been delivered
C20_Witness ==
    /\ Unread(1) = 0
    /\ Unread(2) = 0
    /\ overhead_byte[2] # overhead_byte[1]
    /\ status[2] = "NewData"
    /\ Len(delivered[2]) = 1

====
